---- MODULE Spec2Model ----
(***************************************************************************)
(* Model of part1_script.py: the one-shot pipeline generate_part1_output   *)
(* (indicator fetch, income-level reference build, join, chart, document)  *)
(* and the table transforms it is composed of.                             *)
(*                                                                         *)
(* Python dicts are functions from keys to cells; a DataFrame is a record  *)
(* of its column set, its index labels and its rows (each a function from  *)
(* the columns to cells).  Column ORDER is not modelled.                   *)
(*                                                                         *)
(* Two behaviours of the script are fixed by the interpreter and the       *)
(* pandas release it runs on, which the repository does not pin; the       *)
(* variable build holds them and Init leaves both open:                    *)
(*   unpackBeforePop  {**x, **x.pop(k)} copies x before the pop runs       *)
(*                    (CPython >= 3.9) or after it (CPython <= 3.8);       *)
(*   mergeLeftOrder   an inner merge emits rows in left-row order          *)
(*                    (pandas >= 2.2) or grouped by key in order of first  *)
(*                    appearance (earlier releases).                       *)
(* .loc with a missing column label raises KeyError (pandas >= 1.0).       *)
(***************************************************************************)
EXTENDS Naturals, Sequences, FiniteSets

VARIABLES
    pc,                    \* the statement generate_part1_output is at
    build,                 \* interpreter / library behaviour of this run
    indicator_data,        \* result of retrieve_data_from_api
    country_information,   \* the list search_countries returned (a mutable list of dicts)
    df_flat,               \* result of create_dataframe_from_country_information
    df_filtered,           \* result of filter_out_non_country_observations
    income_level_mapping,  \* result of rename_and_select_relevant_columns
    df,                    \* result of join_income_level_to_indicator
    stdout,                \* lines printed
    written,               \* files written by this run
    error,                 \* the uncaught exception that ended the run, or "none"
    trace,                 \* stages entered so far, in order
    response,              \* what the service answered to the indicator request
    country_response       \* what the service answered to the country-list request

vars == <<pc, build, indicator_data, country_information, df_flat, df_filtered,
          income_level_mapping, df, stdout, written, error, trace, response,
          country_response>>

----------------------------------------------------------------------------
(* Bounds of the inputs the external service can answer with. *)

MaxCountries == 2
MaxObservations == 3

----------------------------------------------------------------------------
(* Values *)

None == [type |-> "NoneType"]
NaN == "NaN"

IsNone(v) == v.type = "NoneType"

Range(s) == {s[i] : i \in 1..Len(s)}

IsPrefix(s, t) == Len(s) <= Len(t) /\ \A i \in 1..Len(s) : s[i] = t[i]

SeqsUpTo(S, n) == UNION {[1..k -> S] : k \in 0..n}

Min(S) == CHOOSE m \in S : \A k \in S : m <= k

\* pd.DataFrame(list of dicts): one row per dict, columns the union of the
\* keys, NaN where a dict lacks a key, a fresh RangeIndex.
DataFrame(dicts) ==
    LET cols == UNION {DOMAIN dicts[i] : i \in 1..Len(dicts)}
    IN  [type |-> "DataFrame",
         columns |-> cols,
         index |-> [i \in 1..Len(dicts) |-> i - 1],
         rows |-> [i \in 1..Len(dicts) |->
                     [c \in cols |-> IF c \in DOMAIN dicts[i] THEN dicts[i][c] ELSE NaN]]]

Return(v, a) == [raised |-> "none", value |-> v, arg |-> a]
Raise(e, a) == [raised |-> e, value |-> None, arg |-> a]

----------------------------------------------------------------------------
(* What the external statistics service can answer with. *)

\* Records of the country list (wbdata.search_countries): a full country
\* record, a second country, a regional aggregate, a record of the shape of
\* the doctest at lines 92-94 (no id, no iso2Code) with a label outside the
\* four canonical levels, and a record without the nested incomeLevel.
CountryRecords ==
    { [id |-> "ABW", iso2Code |-> "AW", name |-> "A",
       incomeLevel |-> [id |-> "HIC", value |-> "High income"]],
      [id |-> "AFG", iso2Code |-> "AF", name |-> "B",
       incomeLevel |-> [id |-> "LIC", value |-> "Low income"]],
      [id |-> "EAS", iso2Code |-> "Z4", name |-> "B",
       incomeLevel |-> [id |-> "NA", value |-> "Aggregates"]],
      [name |-> "A",
       incomeLevel |-> [id |-> "INX", value |-> "Not classified"]],
      [id |-> "ABW", iso2Code |-> "AW", name |-> "A"] }

CountryLists == SeqsUpTo(CountryRecords, MaxCountries)

\* Index entries and values of the indicator series (wbdata.get_dataframe):
\* the frame is indexed by (country, date) and has the one column "value".
SeriesKeys == {[country |-> "A", date |-> "2000"], [country |-> "B", date |-> "2000"]}

SeriesValue(k) == IF k.country = "A" THEN 20 ELSE 90

SeriesFrame(keys) ==
    [type |-> "DataFrame",
     columns |-> {"value"},
     index |-> keys,
     rows |-> [i \in 1..Len(keys) |-> [value |-> SeriesValue(keys[i])]]]

IndicatorResponses ==
    {[status |-> "ok", table |-> SeriesFrame(k)] : k \in SeqsUpTo(SeriesKeys, MaxObservations)}
    \cup {[status |-> s, table |-> None] :
             s \in {"network_error", "unknown_indicator", "malformed_response"}}

NoResponse == [status |-> "not_called", table |-> None]

----------------------------------------------------------------------------
(* Dict and frame operations used by the script. *)

\* {**a, **b}: the keys of both, b's value where both have the key.
DictMerge(a, b) ==
    [k \in DOMAIN a \cup DOMAIN b |-> IF k \in DOMAIN b THEN b[k] ELSE a[k]]

\* x after x.pop("incomeLevel").
DictPop(x) == [k \in DOMAIN x \ {"incomeLevel"} |-> x[k]]

\* DataFrame.reset_index(): the index levels become columns, the index a RangeIndex.
ResetIndex(t) ==
    [type |-> "DataFrame",
     columns |-> t.columns \cup {"country", "date"},
     index |-> [i \in 1..Len(t.rows) |-> i - 1],
     rows |-> [i \in 1..Len(t.rows) |-> DictMerge(t.index[i], t.rows[i])]]

\* The positions of rows, ascending from position i on, whose country is key.
RECURSIVE Positions(_, _, _)
Positions(rows, key, i) ==
    IF i > Len(rows) THEN <<>>
    ELSE (IF rows[i].country = key THEN <<i>> ELSE <<>>) \o Positions(rows, key, i + 1)

\* Every pair <<l, r>>, l from ls and r from rs, ls-major.
RECURSIVE Cross(_, _)
Cross(ls, rs) ==
    IF ls = <<>> THEN <<>>
    ELSE [k \in 1..Len(rs) |-> <<Head(ls), rs[k]>>] \o Cross(Tail(ls), rs)

\* The distinct keys of rows from position i on, in order of first appearance,
\* skipping those in seen.
RECURSIVE KeysInOrder(_, _, _)
KeysInOrder(rows, i, seen) ==
    IF i > Len(rows) THEN <<>>
    ELSE IF rows[i].country \in seen THEN KeysInOrder(rows, i + 1, seen)
    ELSE <<rows[i].country>> \o KeysInOrder(rows, i + 1, seen \cup {rows[i].country})

\* The concatenation of a sequence of sequences.
RECURSIVE Concat(_)
Concat(ss) == IF ss = <<>> THEN <<>> ELSE Head(ss) \o Concat(Tail(ss))

----------------------------------------------------------------------------
(* The functions of part1_script.py.  One that can raise returns           *)
(* [raised, value, arg]: the exception ("none" when it returned), the      *)
(* value returned, and its argument as the call left it.                   *)

MESSAGE == "This indicator could not be retrieved."

\* Variant: the handler prints and raises again.
retrieve_data_from_api_reraise(answer) ==
    IF answer.status = "ok"
    THEN [raised |-> "none", value |-> ResetIndex(answer.table), printed |-> <<>>]
    ELSE [raised |-> "Exception", value |-> None, printed |-> <<MESSAGE>>]

\* retrieve_data_from_api: the bare except catches whatever the client raised.
retrieve_data_from_api(answer) ==
    IF answer.status = "ok"
    THEN [raised |-> "none", value |-> ResetIndex(answer.table), printed |-> <<>>]
    ELSE [raised |-> "none", value |-> None, printed |-> <<MESSAGE>>]

\* {**x, **x.pop("incomeLevel")} for one record x that has the key.
FlattenRecord(x) ==
    IF build.unpackBeforePop
    THEN DictMerge(x, x.incomeLevel)
    ELSE DictMerge(DictPop(x), x.incomeLevel)

\* Variant: x.pop("incomeLevel", {}) - a record without the key passes through.
create_dataframe_pop_default(ci) ==
    LET after == [i \in 1..Len(ci) |-> DictPop(ci[i])]
        nested(x) == IF "incomeLevel" \in DOMAIN x THEN x.incomeLevel ELSE [k \in {} |-> NaN]
    IN  Return(DataFrame([i \in 1..Len(ci) |-> DictMerge(DictPop(ci[i]), nested(ci[i]))]), after)

\* create_dataframe_from_country_information: the comprehension walks the list
\* in order and pops incomeLevel from each record; the first record without
\* the key raises KeyError, the records before it already popped.
create_dataframe_from_country_information(ci) ==
    LET bad == {i \in 1..Len(ci) : "incomeLevel" \notin DOMAIN ci[i]}
        stop == IF bad = {} THEN Len(ci) + 1 ELSE Min(bad)
        after == [i \in 1..Len(ci) |-> IF i < stop THEN DictPop(ci[i]) ELSE ci[i]]
    IN  IF bad = {}
        THEN Return(DataFrame([i \in 1..Len(ci) |-> FlattenRecord(ci[i])]), after)
        ELSE Raise("KeyError", after)

\* Variant: keeps the rows of the four canonical income levels only.
KeptPositionsCanonical(t) ==
    LET RECURSIVE Keep(_)
        Keep(i) == IF i > Len(t.rows) THEN <<>>
                   ELSE (IF t.rows[i]["value"] \in {"High income", "Upper middle income",
                                                     "Lower middle income", "Low income"}
                         THEN <<i>> ELSE <<>>) \o Keep(i + 1)
    IN  Keep(1)

\* The positions of the rows df.loc[df["value"] != "Aggregates", :] keeps.
KeptPositions(t) ==
    LET RECURSIVE Keep(_)
        Keep(i) == IF i > Len(t.rows) THEN <<>>
                   ELSE (IF t.rows[i]["value"] # "Aggregates" THEN <<i>> ELSE <<>>)
                        \o Keep(i + 1)
    IN  Keep(1)

\* filter_out_non_country_observations: df["value"] raises KeyError when the
\* frame has no such column; the rows kept carry their index labels.
filter_out_non_country_observations(t) ==
    IF "value" \notin t.columns THEN Raise("KeyError", t)
    ELSE LET keep == KeptPositions(t)
         IN  Return([type |-> "DataFrame",
                     columns |-> t.columns,
                     index |-> [k \in 1..Len(keep) |-> t.index[keep[k]]],
                     rows |-> [k \in 1..Len(keep) |-> t.rows[keep[k]]]], t)

SELECTED == {"id", "iso2Code", "country", "income_level"}

RenamedColumn(c) ==
    IF c = "name" THEN "country" ELSE IF c = "value" THEN "income_level" ELSE c

SourceColumn(c) ==
    IF c = "country" THEN "name" ELSE IF c = "income_level" THEN "value" ELSE c

\* Variant: the rename without the column selection.
rename_without_select(t) ==
    LET renamed == {RenamedColumn(c) : c \in t.columns}
    IN  IF ~(SELECTED \subseteq renamed) THEN Raise("KeyError", t)
        ELSE Return([type |-> "DataFrame",
                     columns |-> renamed,
                     index |-> t.index,
                     rows |-> [i \in 1..Len(t.rows) |->
                                 [c \in renamed |-> t.rows[i][SourceColumn(c)]]]], t)

\* rename_and_select_relevant_columns: rename ignores a column that is not
\* there; .loc[:, [...]] raises KeyError when a listed column is missing.
rename_and_select_relevant_columns(t) ==
    LET renamed == {RenamedColumn(c) : c \in t.columns}
    IN  IF ~(SELECTED \subseteq renamed) THEN Raise("KeyError", t)
        ELSE Return([type |-> "DataFrame",
                     columns |-> SELECTED,
                     index |-> t.index,
                     rows |-> [i \in 1..Len(t.rows) |->
                                 [c \in SELECTED |-> t.rows[i][SourceColumn(c)]]]], t)

\* Variant: a lookup - each left row is paired with its first match only.
JoinIndexersFirstMatch(left, right) ==
    Concat([i \in 1..Len(left) |->
              LET m == Positions(right, left[i].country, 1)
              IN  IF m = <<>> THEN <<>> ELSE <<(<<i, Head(m)>>)>>])

\* Variant: the pairs in right-row order.
JoinIndexersRightMajor(left, right) ==
    Concat([j \in 1..Len(right) |->
              LET m == Positions(left, right[j].country, 1)
              IN  [k \in 1..Len(m) |-> <<m[k], j>>]])

\* The (left position, right position) pairs of the inner merge on "country",
\* in the order the rows are emitted.
JoinIndexers(left, right) ==
    IF build.mergeLeftOrder
    THEN Concat([i \in 1..Len(left) |->
                   Cross(<<i>>, Positions(right, left[i].country, 1))])
    ELSE LET keys == KeysInOrder(left, 1, {})
         IN  Concat([k \in 1..Len(keys) |->
                       Cross(Positions(left, keys[k], 1), Positions(right, keys[k], 1))])

\* Variant: an absent operand is taken for a frame without rows.
join_none_as_empty(l, r) ==
    IF IsNone(l) \/ IsNone(r)
    THEN Return([type |-> "DataFrame", columns |-> {}, index |-> <<>>, rows |-> <<>>], l)
    ELSE LET pairs == JoinIndexers(l.rows, r.rows)
         IN  Return([type |-> "DataFrame",
                     columns |-> l.columns \cup r.columns,
                     index |-> [k \in 1..Len(pairs) |-> k - 1],
                     rows |-> [k \in 1..Len(pairs) |->
                                 DictMerge(l.rows[pairs[k][1]], r.rows[pairs[k][2]])]], l)

\* join_income_level_to_indicator: pd.merge(..., on="country", how="inner").
\* merge raises TypeError for an operand that is no frame, KeyError when an
\* operand lacks the key column.  (The two frames share no other column.)
join_income_level_to_indicator(l, r) ==
    IF IsNone(l) \/ IsNone(r) THEN Raise("TypeError", l)
    ELSE IF "country" \notin l.columns \/ "country" \notin r.columns THEN Raise("KeyError", l)
    ELSE LET pairs == JoinIndexers(l.rows, r.rows)
         IN  Return([type |-> "DataFrame",
                     columns |-> l.columns \cup r.columns,
                     index |-> [k \in 1..Len(pairs) |-> k - 1],
                     rows |-> [k \in 1..Len(pairs) |->
                                 DictMerge(l.rows[pairs[k][1]], r.rows[pairs[k][2]])]], l)

----------------------------------------------------------------------------
(* generate_part1_output, one action per call it makes.                    *)

StageOrder ==
    <<"fetch_indicator", "fetch_countries", "flatten", "filter", "rename",
      "join", "chart", "document">>

\* Variant: create_document() called before create_chart(df).
AfterDocumentFirst(stage) ==
    LET order == <<"fetch_indicator", "fetch_countries", "flatten", "filter", "rename",
                   "join", "document", "chart">>
        k == CHOOSE i \in 1..Len(order) : order[i] = stage
    IN  IF k = Len(order) THEN "done" ELSE order[k + 1]

\* The statement that follows stage in generate_part1_output (and in the
\* reduce of create_country_income_level_mapping).
After(stage) ==
    LET k == CHOOSE i \in 1..Len(StageOrder) : StageOrder[i] = stage
    IN  IF k = Len(StageOrder) THEN "done" ELSE StageOrder[k + 1]

\* Control after a call made at stage: on to the next statement, or the run
\* ends with the exception the call raised (nothing in the script catches it).
Finish(stage, raised) ==
    /\ trace' = Append(trace, stage)
    /\ IF raised = "none"
       THEN pc' = After(stage) /\ error' = error
       ELSE pc' = "failed" /\ error' = raised

Init ==
    /\ pc = "fetch_indicator"
    /\ build \in [unpackBeforePop : BOOLEAN, mergeLeftOrder : BOOLEAN]
    /\ indicator_data = None
    /\ country_information = None
    /\ df_flat = None
    /\ df_filtered = None
    /\ income_level_mapping = None
    /\ df = None
    /\ stdout = <<>>
    /\ written = {}
    /\ error = "none"
    /\ trace = <<>>
    /\ response = NoResponse
    /\ country_response = NoResponse

\* line 22: indicator_data = retrieve_data_from_api(indicator)
RetrieveDataFromApi ==
    /\ pc = "fetch_indicator"
    /\ \E resp \in IndicatorResponses :
         LET r == retrieve_data_from_api(resp)
         IN  /\ response' = resp
             /\ indicator_data' = r.value
             /\ stdout' = stdout \o r.printed
             /\ Finish("fetch_indicator", r.raised)
    /\ UNCHANGED <<build, country_information, df_flat, df_filtered,
                   income_level_mapping, df, written, country_response>>

\* line 64: country_information = retrieve_country_information_from_wb_api();
\* a failure of the request is not caught.
RetrieveCountryInformation ==
    /\ pc = "fetch_countries"
    /\ \/ \E ci \in CountryLists :
            /\ country_response' = [status |-> "ok", table |-> ci]
            /\ country_information' = ci
            /\ Finish("fetch_countries", "none")
       \/ /\ country_response' = [status |-> "network_error", table |-> None]
          /\ country_information' = country_information
          /\ Finish("fetch_countries", "ConnectionError")
    /\ UNCHANGED <<build, indicator_data, df_flat, df_filtered,
                   income_level_mapping, df, stdout, written, response>>

\* lines 66-74, first function of the reduce.
CreateDataframe ==
    /\ pc = "flatten"
    /\ LET r == create_dataframe_from_country_information(country_information)
       IN  /\ country_information' = r.arg
           /\ df_flat' = r.value
           /\ Finish("flatten", r.raised)
    /\ UNCHANGED <<build, indicator_data, df_filtered, income_level_mapping, df,
                   stdout, written, response, country_response>>

\* lines 66-74, second function of the reduce.
FilterOutNonCountry ==
    /\ pc = "filter"
    /\ LET r == filter_out_non_country_observations(df_flat)
       IN  /\ df_flat' = r.arg
           /\ df_filtered' = r.value
           /\ Finish("filter", r.raised)
    /\ UNCHANGED <<build, indicator_data, country_information,
                   income_level_mapping, df, stdout, written, response, country_response>>

\* lines 66-74, third function of the reduce; its result is what
\* create_country_income_level_mapping returns (line 23).
RenameAndSelect ==
    /\ pc = "rename"
    /\ LET r == rename_and_select_relevant_columns(df_filtered)
       IN  /\ df_filtered' = r.arg
           /\ income_level_mapping' = r.value
           /\ Finish("rename", r.raised)
    /\ UNCHANGED <<build, indicator_data, country_information, df_flat, df,
                   stdout, written, response, country_response>>

\* line 24: df = join_income_level_to_indicator(indicator_data, income_level_mapping)
JoinIncomeLevel ==
    /\ pc = "join"
    /\ LET r == join_income_level_to_indicator(indicator_data, income_level_mapping)
       IN  /\ indicator_data' = r.arg
           /\ df' = r.value
           /\ Finish("join", r.raised)
    /\ UNCHANGED <<build, country_information, df_flat, df_filtered,
                   income_level_mapping, stdout, written, response, country_response>>

\* line 25: create_chart(df); plt.savefig("plot.png") writes the file or
\* raises, uncaught.
CreateChart ==
    /\ pc = "chart"
    /\ \/ /\ written' = written \cup {"plot.png"}
          /\ Finish("chart", "none")
       \/ /\ written' = written
          /\ Finish("chart", "OSError")
    /\ UNCHANGED <<build, indicator_data, country_information, df_flat,
                   df_filtered, income_level_mapping, df, stdout, response,
                   country_response>>

\* line 26: create_document(); pdf.image("plot.png") reads the chart file,
\* pdf.output("part1.pdf") writes the report or raises, uncaught.
CreateDocument ==
    /\ pc = "document"
    /\ \/ /\ "plot.png" \in written
          /\ written' = written \cup {"part1.pdf"}
          /\ Finish("document", "none")
       \/ /\ written' = written
          /\ Finish("document", IF "plot.png" \in written THEN "OSError" ELSE "RuntimeError")
    /\ UNCHANGED <<build, indicator_data, country_information, df_flat,
                   df_filtered, income_level_mapping, df, stdout, response,
                   country_response>>

Next ==
    \/ RetrieveDataFromApi
    \/ RetrieveCountryInformation
    \/ CreateDataframe
    \/ FilterOutNonCountry
    \/ RenameAndSelect
    \/ JoinIncomeLevel
    \/ CreateChart
    \/ CreateDocument

Spec == Init /\ [][Next]_vars

----------------------------------------------------------------------------
(* Properties.                                                             *)

Last(s) == s[Len(s)]

Entered(stage) == stage \in Range(trace)

\* The run is past the reference build: every transform of the reduce that
\* was going to run has returned or raised.
BuildEnded == Entered("flatten") /\ pc \notin {"filter", "rename"}

NotAggregate(row) == row["value"] # "Aggregates"

AggregatePositions(rows) == {i \in 1..Len(rows) : rows[i]["value"] = "Aggregates"}

\* C1: filter_out_non_country_observations returns exactly the input rows
\* whose value is not "Aggregates", unchanged and in input order (labels
\* outside the canonical four included), so the row count drops by the number
\* of aggregate rows; the income_level column of the mapping
\* create_country_income_level_mapping returns is the same sequence of labels.
C1_FilterKeepsNonAggregates ==
    /\ ~IsNone(df_filtered) =>
         /\ df_filtered.rows = SelectSeq(df_flat.rows, NotAggregate)
         /\ \A k \in 1..Len(df_filtered.rows) : df_filtered.rows[k]["value"] # "Aggregates"
         /\ \A i \in 1..Len(df_flat.rows) :
              df_flat.rows[i]["value"] # "Aggregates" => df_flat.rows[i] \in Range(df_filtered.rows)
         /\ Len(df_filtered.rows) + Cardinality(AggregatePositions(df_flat.rows))
              = Len(df_flat.rows)
         /\ df_filtered.columns = df_flat.columns
    /\ ~IsNone(income_level_mapping) =>
         /\ \A k \in 1..Len(income_level_mapping.rows) :
              income_level_mapping.rows[k].income_level # "Aggregates"
         /\ [k \in 1..Len(income_level_mapping.rows) |-> income_level_mapping.rows[k].income_level]
              = LET kept == SelectSeq(df_flat.rows, NotAggregate)
                IN  [k \in 1..Len(kept) |-> kept[k]["value"]]

\* C1 witness: a filter call that dropped an aggregate row and kept a row
\* whose label is none of the canonical four.
C1_Witness ==
    /\ ~IsNone(income_level_mapping)
    /\ AggregatePositions(df_flat.rows) # {}
    /\ \E k \in 1..Len(df_filtered.rows) : df_filtered.rows[k]["value"] = "Not classified"

WellFormed(list) ==
    \A i \in 1..Len(list) :
        /\ {"name", "incomeLevel"} \subseteq DOMAIN list[i]
        /\ DOMAIN list[i].incomeLevel = {"id", "value"}

HasIso2Code(list) == \E i \in 1..Len(list) : "iso2Code" \in DOMAIN list[i]

\* C2 as stated: for any well-formed country list (each record has a name and
\* a nested incomeLevel {id, value}; iso2Code is not required) the reference
\* builder succeeds and returns a table with exactly the columns id, iso2Code,
\* country, income_level.  (Stated here for the lists that hold a record.)
C2_BuilderAlwaysSucceeds ==
    (BuildEnded /\ WellFormed(country_response.table) /\ country_response.table # <<>>) =>
        /\ ~IsNone(income_level_mapping)
        /\ income_level_mapping.columns = {"id", "iso2Code", "country", "income_level"}

\* C2 amended: for a well-formed country list that is not empty and in which
\* at least one record has an iso2Code the builder succeeds with exactly the
\* four columns; for a well-formed list that is empty or has no iso2Code at
\* all it raises KeyError and returns no table.
C2_BuilderSucceedsWithIso2Code ==
    (BuildEnded /\ WellFormed(country_response.table)) =>
        IF HasIso2Code(country_response.table)
        THEN /\ ~IsNone(income_level_mapping)
             /\ income_level_mapping.columns = {"id", "iso2Code", "country", "income_level"}
             /\ \A k \in 1..Len(income_level_mapping.rows) :
                  DOMAIN income_level_mapping.rows[k] = {"id", "iso2Code", "country", "income_level"}
        ELSE /\ IsNone(income_level_mapping)
             /\ pc = "failed" /\ error = "KeyError"
             /\ Last(trace) \in {"filter", "rename"}

\* C2 witness: the builder has returned for a well-formed list one of whose
\* records has no iso2Code.
C2_Witness ==
    /\ BuildEnded
    /\ WellFormed(country_response.table)
    /\ ~IsNone(income_level_mapping)
    /\ \E i \in 1..Len(country_response.table) : "iso2Code" \notin DOMAIN country_response.table[i]
    /\ \E k \in 1..Len(income_level_mapping.rows) : income_level_mapping.rows[k].iso2Code = NaN

\* C3: create_dataframe_from_country_information produces one row per record
\* whose columns are the parent's keys other than incomeLevel together with
\* the nested keys; on a key both have the row holds the nested value; the
\* frame has no incomeLevel column.
C3_FlattenedColumns ==
    ~IsNone(df_flat) =>
        LET recs == country_response.table
        IN  /\ Len(df_flat.rows) = Len(recs)
            /\ df_flat.columns =
                 UNION {(DOMAIN recs[i] \ {"incomeLevel"}) \cup DOMAIN recs[i].incomeLevel :
                          i \in 1..Len(recs)}
            /\ \A i \in 1..Len(recs) :
                 /\ \A k \in DOMAIN recs[i].incomeLevel :
                      df_flat.rows[i][k] = recs[i].incomeLevel[k]
                 /\ \A k \in DOMAIN recs[i] \ ({"incomeLevel"} \cup DOMAIN recs[i].incomeLevel) :
                      df_flat.rows[i][k] = recs[i][k]
            /\ "incomeLevel" \notin df_flat.columns

LacksIncomeLevel(list) == \E i \in 1..Len(list) : "incomeLevel" \notin DOMAIN list[i]

\* C4 as stated: the flatten applied to a record without a nested incomeLevel
\* completes without error and yields that record unchanged.
C4_FlattenNoOpWithoutIncomeLevel ==
    (Entered("flatten") /\ LacksIncomeLevel(country_response.table)) =>
        /\ ~(pc = "failed" /\ Last(trace) = "flatten")
        /\ ~IsNone(df_flat)
        /\ \A i \in 1..Len(country_response.table) :
             "incomeLevel" \notin DOMAIN country_response.table[i] =>
                 \A k \in DOMAIN country_response.table[i] :
                     df_flat.rows[i][k] = country_response.table[i][k]

\* C4 amended: the flatten applied to a list holding a record without a
\* nested incomeLevel raises KeyError and returns no table; the run ends there.
C4_FlattenRaisesWithoutIncomeLevel ==
    (Entered("flatten") /\ LacksIncomeLevel(country_response.table)) =>
        /\ pc = "failed"
        /\ error = "KeyError"
        /\ Last(trace) = "flatten"
        /\ IsNone(df_flat)

\* C4 witness: the flatten was called on a list whose second record has no
\* incomeLevel and has raised.
C4_Witness ==
    /\ Entered("flatten")
    /\ Len(country_response.table) = 2
    /\ "incomeLevel" \in DOMAIN country_response.table[1]
    /\ "incomeLevel" \notin DOMAIN country_response.table[2]
    /\ error = "KeyError"

CountOf(rows, c) == Cardinality({i \in 1..Len(rows) : rows[i].country = c})

CountriesOf(rows) == {rows[i].country : i \in 1..Len(rows)}

Smaller(a, b) == IF a <= b THEN a ELSE b

\* The rows of rows whose country occurs in other.
Matched(rows, other) ==
    Cardinality({i \in 1..Len(rows) : rows[i].country \in CountriesOf(other)})

\* What C5 says of the rows joined: each joined row pairs an Observation row
\* with a CountryInfo row of the same country, and per country name there are
\* (Observation rows) times (CountryInfo rows) of them; so a country in only
\* one table has none.
JoinIsInner ==
    LET l == indicator_data.rows
        r == income_level_mapping.rows
    IN  /\ \A k \in 1..Len(df.rows) :
             /\ df.rows[k].country \in CountriesOf(l) \cap CountriesOf(r)
             /\ \E i \in 1..Len(l), j \in 1..Len(r) :
                  l[i].country = r[j].country /\ df.rows[k] = DictMerge(l[i], r[j])
        /\ \A c \in CountriesOf(l) \cup CountriesOf(r) :
             CountOf(df.rows, c) = CountOf(l, c) * CountOf(r, c)

\* C5 as stated: join_income_level_to_indicator is an inner join on country
\* with fan-out under duplicate names, and the joined row count is at most
\* the smaller of the two tables' counts of rows that found a match.
C5_InnerJoinBoundedByMin ==
    ~IsNone(df) =>
        /\ JoinIsInner
        /\ Len(df.rows) <= Smaller(Matched(indicator_data.rows, income_level_mapping.rows),
                                   Matched(income_level_mapping.rows, indicator_data.rows))

\* C5 amended: join_income_level_to_indicator is an inner join on country
\* with fan-out under duplicate names; the joined row count is the sum over
\* the country names of (Observation rows) times (CountryInfo rows), which is
\* at most the product of the two tables' counts of matched rows.
C5_InnerJoinFansOut ==
    ~IsNone(df) =>
        /\ JoinIsInner
        /\ Len(df.rows) <= Matched(indicator_data.rows, income_level_mapping.rows)
                             * Matched(income_level_mapping.rows, indicator_data.rows)

\* C5 witness: a join in which a name occurs twice in each table (four joined
\* rows for it) and an Observation row found no match.
C5_Witness ==
    /\ ~IsNone(df)
    /\ \E c \in CountriesOf(indicator_data.rows) :
         /\ CountOf(indicator_data.rows, c) = 2
         /\ CountOf(income_level_mapping.rows, c) = 2
         /\ CountOf(df.rows, c) = 4
    /\ \E c \in CountriesOf(indicator_data.rows) : CountOf(df.rows, c) = 0

\* The pairs the join emitted and the rows it built from them.
JoinedFrom(pairs) ==
    /\ Len(df.rows) = Len(pairs)
    /\ \A k \in 1..Len(pairs) :
         df.rows[k] = DictMerge(indicator_data.rows[pairs[k][1]],
                                income_level_mapping.rows[pairs[k][2]])

\* C6 as stated: the joined rows come in the order of the Observation rows:
\* every joined row built from r1 precedes every joined row built from a
\* later Observation row r2.
C6_JoinKeepsLeftOrder ==
    ~IsNone(df) =>
        LET pairs == JoinIndexers(indicator_data.rows, income_level_mapping.rows)
        IN  /\ JoinedFrom(pairs)
            /\ \A a, b \in 1..Len(pairs) : pairs[a][1] < pairs[b][1] => a < b

\* C6 amended: every joined row built from Observation row r1 precedes every
\* joined row built from a later Observation row r2 when r1 and r2 name the
\* same country or r2's country does not occur in the Observation table
\* before r1 (so the output is in left order whenever each country's
\* Observation rows are contiguous); the rows built from one Observation row
\* come in CountryInfo order.
C6_JoinKeepsLeftOrderPerCountry ==
    ~IsNone(df) =>
        LET l == indicator_data.rows
            pairs == JoinIndexers(l, income_level_mapping.rows)
        IN  /\ JoinedFrom(pairs)
            /\ \A a, b \in 1..Len(pairs) :
                 ( /\ pairs[a][1] < pairs[b][1]
                   /\ \/ l[pairs[a][1]].country = l[pairs[b][1]].country
                      \/ \A i \in 1..pairs[a][1] : l[i].country # l[pairs[b][1]].country )
                 => a < b
            /\ \A a, b \in 1..Len(pairs) :
                 (pairs[a][1] = pairs[b][1] /\ pairs[a][2] < pairs[b][2]) => a < b

\* C6 witness: a join of Observation rows A, B, A, all matched, on a build
\* whose merge groups the rows by key.
C6_Witness ==
    /\ ~IsNone(df)
    /\ ~build.mergeLeftOrder
    /\ Len(indicator_data.rows) = 3
    /\ indicator_data.rows[1].country = indicator_data.rows[3].country
    /\ indicator_data.rows[1].country # indicator_data.rows[2].country
    /\ Len(df.rows) >= 3
    /\ CountriesOf(df.rows) = CountriesOf(indicator_data.rows)

FetchFailed == response.status \in {"network_error", "unknown_indicator", "malformed_response"}

\* C7: when the service fails, retrieve_data_from_api prints the message
\* exactly once, lets no exception escape and returns None; when it succeeds
\* it returns the series with the index turned into columns and prints nothing.
C7_FetchFailureIsPrintedAndSwallowed ==
    Entered("fetch_indicator") =>
        /\ ~(pc = "failed" /\ Last(trace) = "fetch_indicator")
        /\ Last(trace) = "fetch_indicator" => (pc = "fetch_countries" /\ error = "none")
        /\ IF FetchFailed
           THEN /\ stdout = <<"This indicator could not be retrieved.">>
                /\ IsNone(indicator_data)
           ELSE /\ response.status = "ok"
                /\ stdout = <<>>
                /\ ~IsNone(indicator_data)
                /\ indicator_data.columns = {"country", "date", "value"}
                /\ Len(indicator_data.rows) = Len(response.table.rows)
                /\ \A i \in 1..Len(indicator_data.rows) :
                     /\ indicator_data.rows[i].country = response.table.index[i].country
                     /\ indicator_data.rows[i].date = response.table.index[i].date
                     /\ indicator_data.rows[i]["value"] = response.table.rows[i]["value"]
                     /\ indicator_data.index[i] = i - 1

\* C7 witness: the call has returned for an indicator the service does not know.
C7_Witness ==
    /\ response.status = "unknown_indicator"
    /\ Last(trace) = "fetch_indicator"
    /\ pc = "fetch_countries"
    /\ Len(stdout) = 1

\* C8 as stated: a run whose indicator fetch failed goes on to fetch the
\* country list and build the reference table, fails in the join, and writes
\* neither plot.png nor part1.pdf.
C8_FailedFetchRunEndsInJoin ==
    (FetchFailed /\ pc \in {"done", "failed"}) =>
        /\ pc = "failed"
        /\ ~IsNone(income_level_mapping)
        /\ Last(trace) = "join"
        /\ written = {}

\* C8 amended: a run whose indicator fetch failed does not abort at the fetch
\* but goes on to the country-list fetch and the reference build; if those
\* complete, the absent value is passed unchecked into the join, where the
\* run fails (TypeError); if the country-list fetch or the build raises, the
\* run ends there; in either case neither plot.png nor part1.pdf is written.
C8_FailedFetchRunEndsByJoin ==
    FetchFailed =>
        /\ IsNone(indicator_data)
        /\ Last(trace) = "fetch_indicator" => pc = "fetch_countries"
        /\ ~IsNone(income_level_mapping) => (pc = "join" \/ Entered("join"))
        /\ Entered("join") =>
             /\ ~IsNone(income_level_mapping)
             /\ pc = "failed" /\ error = "TypeError" /\ Last(trace) = "join"
        /\ pc = "failed" => Last(trace) \in {"fetch_countries", "flatten", "filter", "rename", "join"}
        /\ pc \notin {"chart", "document", "done"}
        /\ ~Entered("chart") /\ ~Entered("document")
        /\ written = {}

\* C8 witness: the run of a failed fetch has built the reference table and
\* ended in the join.
C8_Witness ==
    /\ FetchFailed
    /\ ~IsNone(income_level_mapping)
    /\ pc = "failed" /\ error = "TypeError" /\ Last(trace) = "join"

\* C9: no stage mutates its input: across each of the four transforms the
\* value it was given (the raw country list and its records included) is
\* what it was before the call.
C9_NoStageMutatesItsInput ==
    [][ /\ pc = "flatten" => country_information' = country_information
        /\ pc = "filter" => df_flat' = df_flat
        /\ pc = "rename" => df_filtered' = df_filtered
        /\ pc = "join" => /\ indicator_data' = indicator_data
                          /\ income_level_mapping' = income_level_mapping ]_vars

ClaimedOrder ==
    <<"fetch_indicator", "fetch_countries", "flatten", "filter", "rename",
      "join", "chart", "document">>

\* C10: the stages run at most once each, in the order indicator fetch,
\* country fetch, flatten, filter, rename/select, join, chart, document; a
\* stage starts only after every earlier one returned without an uncaught
\* exception, so part1.pdf is written only after plot.png; a failure of the
\* country fetch or of the chart write ends the run with no later stage; a
\* join of zero rows is no failure and the run goes on to the chart and the
\* document.
C10_StagesRunOnceInOrder ==
    /\ IsPrefix(trace, ClaimedOrder)
    /\ pc \notin {"done", "failed"} =>
         /\ Len(trace) < Len(ClaimedOrder)
         /\ pc = ClaimedOrder[Len(trace) + 1]
         /\ error = "none"
    /\ "part1.pdf" \in written => ("plot.png" \in written /\ Entered("chart"))
    /\ pc = "failed" => (error # "none" /\ ~ENABLED Next)
    /\ country_response.status = "network_error" =>
         (pc = "failed" /\ Last(trace) = "fetch_countries")
    /\ (Entered("chart") /\ "plot.png" \notin written) =>
         (pc = "failed" /\ Last(trace) = "chart")
    /\ (~IsNone(df) /\ Len(df.rows) = 0) =>
         \/ pc \in {"chart", "document", "done"}
         \/ pc = "failed" /\ Last(trace) \in {"chart", "document"}
    /\ pc = "done" => (trace = ClaimedOrder /\ written = {"plot.png", "part1.pdf"})

\* C10 witness: a run whose join gave no row has written the chart and the
\* document and is done.
C10_Witness ==
    /\ pc = "done"
    /\ Len(df.rows) = 0
    /\ written = {"plot.png", "part1.pdf"}

====
